---- MODULE Spec2Model ----
(***************************************************************************)
(* Model of package fee (club fee ledger of the Buddy System).             *)
(*                                                                         *)
(* The state is the two MongoDB collections the package works on, "fees"   *)
(* (Fee documents) and "logs" (Log documents), the ObjectID generator, the *)
(* wall clock in Unix seconds, and for every caller the position of its    *)
(* current call.  One step of a call is one driver call (Connect, FindOne, *)
(* Find, InsertOne, UpdateOne, UpdateMany, DeleteOne, Disconnect) together *)
(* with the local computation that precedes it.  A driver call either      *)
(* succeeds or fails; a failed call has no effect on the collections.      *)
(***************************************************************************)
EXTENDS Integers, Sequences, FiniteSets, TLC

(* ------------------------------ bounds ------------------------------- *)

\* ObjectIDs handed out by NewLog are 1..MaxLogs
MaxLogs == 2
\* the clock reads 0..MaxClock (Unix seconds)
MaxClock == 1
\* longest id list passed to Approve / Reject
MaxIds == 2
\* most Fee documents in the fees collection (reached only by racing Creates)
MaxFees == 2

(* --------------------------- input domains --------------------------- *)

Years == {2024}
Semesters == {1, 2}
\* fee amounts passed to Create (Create takes any int: 0 is the least sum of amounts)
Amounts == {0, 2}
\* amounts passed to Submit and Deposit
LogAmounts == {1}
\* member ids a caller may submit under
MemberIDs == {"m1"}
\* ids of the documents of the members collection
Directory == {"m1", "m2"}
Ids == 1..MaxLogs
Procs == {1, 2}
\* the caller of the sequential specification
Client == CHOOSE p \in Procs : \A q \in Procs : p <= q

\* lists of distinct ids
IdLists ==
  {l \in UNION {[1..n -> Ids] : n \in 0..MaxIds} :
     \A i, j \in 1..Len(l) : i # j => l[i] # l[j]}

VARIABLES
  fees,    \* collection "fees": sequence of Fee documents in insertion order
  logs,    \* collection "logs": function from the _id of each Log document to the document
  nextId,  \* number of ObjectIDs generated so far
  now,     \* time.Now().Unix()
  pc,      \* pc[p]: position of caller p in its call
  call,    \* call[p]: operation and arguments of p's current call
  loc,     \* loc[p]: local variables of p's current call
  ret,     \* ret[p]: what p's call returned
  conn,    \* conn[p]: p's mongo client is connected
  pre      \* pre[p]: the collections as they were when p's call started

vars == <<fees, logs, nextId, now, pc, call, loc, ret, conn, pre>>

(* ------------------------------ documents ---------------------------- *)

\* fee.New
New(year, semester, amount) ==
  [year |-> year, semester |-> semester, amount |-> amount, logs |-> <<>>]

\* fee.NewLog: a fresh ObjectID, the given fields, updated_at the current time
NewLog(id, memberID, typ, amount, t) ==
  [id |-> id, member_id |-> memberID, type |-> typ, amount |-> amount, updated_at |-> t]

(* --------------------------- driver calls ---------------------------- *)

Matches(fs, year, semester) ==
  {i \in 1..Len(fs) : fs[i].year = year /\ fs[i].semester = semester}

Min(S) == CHOOSE x \in S : \A y \in S : x <= y

\* Collection.FindOne on fees by (year, semester): index of the first match, 0 for ErrNoDocuments
FindOne(fs, year, semester) ==
  IF Matches(fs, year, semester) = {} THEN 0 ELSE Min(Matches(fs, year, semester))

\* Collection.InsertOne on fees
InsertOneFee(fs, fee) == Append(fs, fee)

\* $push with a filter on year alone
UpdateOnePushYearOnly(fs, year, semester, id) ==
  LET M == {i \in 1..Len(fs) : fs[i].year = year} IN
  IF M = {} THEN fs
  ELSE [fs EXCEPT ![Min(M)].logs = Append(@, id)]

\* the array read, appended to and written back over what was read at the start
UpdateOnePushOverwrite(fs, year, semester, id) ==
  LET i == FindOne(fs, year, semester) IN
  IF i = 0 THEN fs
  ELSE [fs EXCEPT ![i].logs = <<id>>]

\* $push with the upsert option: a document is inserted when nothing matches
UpdateOnePushUpsert(fs, year, semester, id) ==
  LET i == FindOne(fs, year, semester) IN
  IF i = 0 THEN Append(fs, [year |-> year, semester |-> semester, amount |-> 0, logs |-> <<id>>])
  ELSE [fs EXCEPT ![i].logs = Append(@, id)]

\* $push applied to every match, as UpdateMany would
UpdateOnePushEach(fs, year, semester, id) ==
  [i \in 1..Len(fs) |->
     IF i \in Matches(fs, year, semester) THEN [fs[i] EXCEPT !.logs = Append(@, id)]
     ELSE fs[i]]

\* Collection.UpdateOne on fees with $push logs: the first match, none when nothing matches
UpdateOnePush(fs, year, semester, id) ==
  LET i == FindOne(fs, year, semester) IN
  IF i = 0 THEN fs
  ELSE [fs EXCEPT ![i].logs = Append(@, id)]

\* the elements of s other than x, in order
RECURSIVE Without(_, _)
Without(s, x) ==
  IF s = <<>> THEN <<>>
  ELSE IF s[1] = x THEN Without(Tail(s), x)
  ELSE <<s[1]>> \o Without(Tail(s), x)

\* $set of an empty logs array in place of the $pull of one id
UpdateOnePullAll(fs, year, semester, id) ==
  LET i == FindOne(fs, year, semester) IN
  IF i = 0 THEN fs
  ELSE [fs EXCEPT ![i].logs = <<>>]

\* Collection.UpdateOne on fees with $pull logs
UpdateOnePull(fs, year, semester, id) ==
  LET i == FindOne(fs, year, semester) IN
  IF i = 0 THEN fs
  ELSE [fs EXCEPT ![i].logs = Without(@, id)]

\* Collection.InsertOne on logs
InsertOneLog(ls, log) ==
  [i \in DOMAIN ls \cup {log.id} |->
     IF i = log.id
     THEN [member_id |-> log.member_id, type |-> log.type,
           amount |-> log.amount, updated_at |-> log.updated_at]
     ELSE ls[i]]

\* DeleteOne with a filter that matches no document
DeleteOneNoMatch(ls, id) == ls

\* Collection.DeleteOne on logs by _id
DeleteOne(ls, id) == [i \in DOMAIN ls \ {id} |-> ls[i]]

\* UpdateMany with $set type alone
UpdateManyTypeOnly(ls, ids, t) ==
  [i \in DOMAIN ls |->
     IF i \in ids THEN [ls[i] EXCEPT !.type = "approved"]
     ELSE ls[i]]

\* Collection.UpdateMany on logs, _id $in ids, $set type and updated_at
UpdateMany(ls, ids, t) ==
  [i \in DOMAIN ls |->
     IF i \in ids THEN [ls[i] EXCEPT !.type = "approved", !.updated_at = t]
     ELSE ls[i]]

Range(s) == {s[i] : i \in 1..Len(s)}

EmptyFn == [i \in {} |-> 0]

RECURSIVE SumAmount(_, _)
\* the sum of amount over the documents of ls with _id in S
SumAmount(ls, S) ==
  IF S = {} THEN 0
  ELSE LET i == CHOOSE x \in S : TRUE IN ls[i].amount + SumAmount(ls, S \ {i})

(* --------------------------- call records ---------------------------- *)

Ops == {"Create", "Submit", "Amount", "Dones", "Yets", "All", "Approve", "Reject", "Deposit"}
WriteOps == {"Create", "Submit", "Approve", "Reject", "Deposit"}

NoCall == [op |-> "none", year |-> 0, semester |-> 0, amount |-> 0, memberID |-> "", ids |-> <<>>]
NoLog == [id |-> 0, member_id |-> "", type |-> "", amount |-> 0, updated_at |-> 0]
NoFee == [year |-> 0, semester |-> 0, amount |-> 0, logs |-> <<>>]
NoLoc == [log |-> NoLog, idx |-> 0, onok |-> "none", fee |-> NoFee, amounts |-> EmptyFn]
NoRet == [err |-> "pending", sum |-> 0, members |-> {}, logs |-> <<>>]
NoPre == [fees |-> <<>>, logs |-> EmptyFn]

\* the calls a caller can make with semesters S, fee amounts A, log amounts B, member ids M
\* and id lists L
CallsOf(S, A, B, M, L) ==
  {[op |-> "Create", year |-> y, semester |-> s, amount |-> a, memberID |-> "", ids |-> <<>>] :
     y \in Years, s \in S, a \in A}
  \cup
  {[op |-> "Submit", year |-> y, semester |-> s, amount |-> a, memberID |-> m, ids |-> <<>>] :
     y \in Years, s \in S, a \in B, m \in M}
  \cup
  {[op |-> "Deposit", year |-> y, semester |-> s, amount |-> a, memberID |-> "", ids |-> <<>>] :
     y \in Years, s \in S, a \in B}
  \cup
  {[op |-> "Approve", year |-> 0, semester |-> 0, amount |-> 0, memberID |-> "", ids |-> l] :
     l \in L}
  \cup
  {[op |-> "Reject", year |-> y, semester |-> s, amount |-> 0, memberID |-> "", ids |-> l] :
     y \in Years, s \in S, l \in L}
  \cup
  {[op |-> "Amount", year |-> y, semester |-> s, amount |-> 0, memberID |-> m, ids |-> <<>>] :
     y \in Years, s \in S, m \in M}
  \cup
  {[op |-> o, year |-> y, semester |-> s, amount |-> 0, memberID |-> "", ids |-> <<>>] :
     o \in {"Dones", "Yets", "All"}, y \in Years, s \in S}

Calls == CallsOf(Semesters, Amounts, LogAmounts, MemberIDs, IdLists)

Init ==
  /\ fees = <<>>
  /\ logs = EmptyFn
  /\ nextId = 0
  /\ now = 0
  /\ pc = [p \in Procs |-> "idle"]
  /\ call = [p \in Procs |-> NoCall]
  /\ loc = [p \in Procs |-> NoLoc]
  /\ ret = [p \in Procs |-> NoRet]
  /\ conn = [p \in Procs |-> FALSE]
  /\ pre = [p \in Procs |-> NoPre]

Idle(p) == pc[p] = "idle"

\* callers that will still generate an ObjectID / insert a Fee document
Pending(op, at) == Cardinality({q \in Procs : call[q].op \in op /\ pc[q] \in at})

\* the call returns e: of its locals only the log it made stays known to the caller
Return(p, e) ==
  /\ pc' = [pc EXCEPT ![p] = "done"]
  /\ ret' = [ret EXCEPT ![p].err = e]
  /\ loc' = [loc EXCEPT ![p] = [NoLoc EXCEPT !.log = loc[p].log]]

\* the call goes on at step
Goto(p, step) ==
  /\ pc' = [pc EXCEPT ![p] = step]
  /\ UNCHANGED ret

\* the first driver call of each operation after Connect
FirstStep(c) ==
  CASE c.op = "Create" -> "Create.FindOne"
    [] c.op = "Submit" -> "Submit.InsertOne"
    [] c.op = "Deposit" -> "Deposit.UpdateOne"
    [] c.op = "Approve" -> "Approve.UpdateMany"
    [] c.op = "Reject" -> IF c.ids = <<>> THEN "Disconnect" ELSE "Reject.UpdateOne"
    [] c.op = "Amount" -> "Amount.FindOne"
    [] c.op = "Dones" -> "Dones.FindOne"
    [] c.op = "Yets" -> "Yets.FindOne"
    [] c.op = "All" -> "All.FindOne"

\* a caller starts a call: the handler up to mongo.Connect and the return on its error;
\* snapshot is what is remembered of the collections at this point
Begin(p, c, snapshot) ==
  /\ Idle(p)
  /\ c.op \in {"Submit", "Deposit"} =>
       nextId + Pending({"Submit", "Deposit"}, {"Submit.InsertOne", "Deposit.UpdateOne"}) < MaxLogs
  /\ c.op = "Create" =>
       Len(fees) + Pending({"Create"}, {"Create.FindOne", "Create.InsertOne"}) < MaxFees
  /\ call' = [call EXCEPT ![p] = c]
  /\ pre' = [pre EXCEPT ![p] = snapshot]
  /\ \/ /\ conn' = [conn EXCEPT ![p] = TRUE]
        /\ pc' = [pc EXCEPT ![p] = FirstStep(c)]
        /\ ret' = [ret EXCEPT ![p] = NoRet]
        /\ loc' = [loc EXCEPT ![p] = [NoLoc EXCEPT !.idx = IF c.op = "Reject" THEN 1 ELSE 0]]
     \/ /\ conn' = [conn EXCEPT ![p] = FALSE]
        /\ pc' = [pc EXCEPT ![p] = "done"]
        /\ ret' = [ret EXCEPT ![p] = [NoRet EXCEPT !.err = "connect_err"]]
        /\ loc' = [loc EXCEPT ![p] = NoLoc]
  /\ UNCHANGED <<fees, logs, nextId, now>>

Call(p, c) == Begin(p, c, [fees |-> fees, logs |-> logs])

\* client.Disconnect as the last statement: its error, or the pending result
Disconnect(p) ==
  /\ pc[p] = "Disconnect"
  /\ \/ /\ conn' = [conn EXCEPT ![p] = FALSE]
        /\ Return(p, loc[p].onok)
     \/ /\ Return(p, "disconnect_err")
        /\ UNCHANGED conn
  /\ UNCHANGED <<fees, logs, nextId, now, call, pre>>

\* the caller has its result and is ready for its next call
Finish(p) ==
  /\ pc[p] = "done"
  /\ pc' = [pc EXCEPT ![p] = "idle"]
  /\ call' = [call EXCEPT ![p] = NoCall]
  /\ ret' = [ret EXCEPT ![p] = NoRet]
  /\ conn' = [conn EXCEPT ![p] = FALSE]
  /\ pre' = [pre EXCEPT ![p] = NoPre]
  /\ loc' = [loc EXCEPT ![p] = NoLoc]
  /\ UNCHANGED <<fees, logs, nextId, now>>

\* the clock advances.  A call reads the clock at most once, so time passing during
\* a call is time passing before it.
Tick ==
  /\ \A p \in Procs : Idle(p)
  /\ now < MaxClock
  /\ now' = now + 1
  /\ UNCHANGED <<fees, logs, nextId, pc, call, loc, ret, conn, pre>>

(* ------------------------------ Create ------------------------------- *)

\* the err of FindOne(...).Decode(fee) on fees
FindOneErr(fs, year, semester, ok) ==
  IF ~ok THEN "find_err"
  ELSE IF FindOne(fs, year, semester) = 0 THEN "ErrNoDocuments"
  ELSE "none"

\* the test inverted: err == mongo.ErrNoDocuments
CreateDuplicatedInverted(err) == err = "ErrNoDocuments"

\* Create's test after FindOne: err != mongo.ErrNoDocuments
CreateDuplicated(err) == err # "ErrNoDocuments"

CreateFindOne(p) ==
  /\ pc[p] = "Create.FindOne"
  /\ \E ok \in BOOLEAN :
       LET err == FindOneErr(fees, call[p].year, call[p].semester, ok) IN
       IF CreateDuplicated(err)
       THEN /\ Goto(p, "Disconnect")
            /\ loc' = [loc EXCEPT ![p].onok = "ErrDuplicatedFee"]
       ELSE /\ Goto(p, "Create.InsertOne")
            /\ UNCHANGED loc
  /\ UNCHANGED <<fees, logs, nextId, now, call, conn, pre>>

CreateInsertOne(p) ==
  /\ pc[p] = "Create.InsertOne"
  /\ \/ /\ fees' = InsertOneFee(fees, New(call[p].year, call[p].semester, call[p].amount))
        /\ Goto(p, "Disconnect")
        /\ UNCHANGED loc
     \/ /\ Return(p, "insert_err")
        /\ UNCHANGED fees
  /\ UNCHANGED <<logs, nextId, now, call, conn, pre>>

(* ------------------------------ Submit ------------------------------- *)

SubmitInsertOne(p) ==
  /\ pc[p] = "Submit.InsertOne"
  /\ nextId' = nextId + 1
  /\ LET log == NewLog(nextId + 1, call[p].memberID, "unapproved", call[p].amount, now) IN
     \/ /\ logs' = InsertOneLog(logs, log)
        /\ Goto(p, "Submit.UpdateOne")
        /\ loc' = [loc EXCEPT ![p].log = log]
     \/ /\ Return(p, "insert_err")
        /\ UNCHANGED logs
  /\ UNCHANGED <<fees, now, call, conn, pre>>

SubmitUpdateOne(p) ==
  /\ pc[p] = "Submit.UpdateOne"
  /\ \/ /\ fees' = UpdateOnePush(fees, call[p].year, call[p].semester, loc[p].log.id)
        /\ Goto(p, "Disconnect")
        /\ UNCHANGED loc
     \/ /\ Return(p, "update_err")
        /\ UNCHANGED fees
  /\ UNCHANGED <<logs, nextId, now, call, conn, pre>>

(* ------------------------------ Deposit ------------------------------ *)

DepositUpdateOne(p) ==
  /\ pc[p] = "Deposit.UpdateOne"
  /\ nextId' = nextId + 1
  /\ LET deposit == NewLog(nextId + 1, "", "direct", call[p].amount, now) IN
     \/ /\ fees' = UpdateOnePush(fees, call[p].year, call[p].semester, deposit.id)
        /\ Goto(p, "Deposit.InsertOne")
        /\ loc' = [loc EXCEPT ![p].log = deposit]
     \/ /\ Return(p, "update_err")
        /\ UNCHANGED fees
  /\ UNCHANGED <<logs, now, call, conn, pre>>

\* the result of InsertOne is dropped: the call goes on whether it inserted or not
DepositInsertOne(p) ==
  /\ pc[p] = "Deposit.InsertOne"
  /\ \/ logs' = InsertOneLog(logs, loc[p].log)
     \/ UNCHANGED logs
  /\ Goto(p, "Disconnect")
  /\ UNCHANGED <<fees, nextId, now, call, loc, conn, pre>>

(* ------------------------------ Approve ------------------------------ *)

ApproveUpdateMany(p) ==
  /\ pc[p] = "Approve.UpdateMany"
  /\ \/ /\ logs' = UpdateMany(logs, Range(call[p].ids), now)
        /\ Goto(p, "Disconnect")
        /\ UNCHANGED loc
     \/ /\ Return(p, "update_err")
        /\ UNCHANGED logs
  /\ UNCHANGED <<fees, nextId, now, call, conn, pre>>

(* ------------------------------ Reject ------------------------------- *)

RejectUpdateOne(p) ==
  /\ pc[p] = "Reject.UpdateOne"
  /\ \/ /\ fees' = UpdateOnePull(fees, call[p].year, call[p].semester, call[p].ids[loc[p].idx])
        /\ Goto(p, "Reject.DeleteOne")
        /\ UNCHANGED loc
     \/ /\ Return(p, "update_err")
        /\ UNCHANGED fees
  /\ UNCHANGED <<logs, nextId, now, call, conn, pre>>

RejectDeleteOne(p) ==
  /\ pc[p] = "Reject.DeleteOne"
  /\ \/ /\ logs' = DeleteOne(logs, call[p].ids[loc[p].idx])
        /\ Goto(p, IF loc[p].idx = Len(call[p].ids) THEN "Disconnect" ELSE "Reject.UpdateOne")
        /\ loc' = [loc EXCEPT ![p].idx = @ + 1]
     \/ /\ Return(p, "delete_err")
        /\ UNCHANGED logs
  /\ UNCHANGED <<fees, nextId, now, call, conn, pre>>

(* ------------------------------ queries ------------------------------ *)

\* the err of FindOne(...).Decode(fee) not looked at: the call goes on with the fee it has
QueryFindOneIgnoresErr(p, next) ==
  /\ Goto(p, next)
  /\ loc' = [loc EXCEPT ![p].fee =
               IF FindOne(fees, call[p].year, call[p].semester) = 0 THEN NoFee
               ELSE fees[FindOne(fees, call[p].year, call[p].semester)]]
  /\ UNCHANGED <<fees, logs, nextId, now, call, conn, pre>>

\* FindOne(...).Decode(fee) of Amount, Dones, Yets and All: return on any err
QueryFindOne(p, next) ==
  /\ \E ok \in BOOLEAN :
       LET err == FindOneErr(fees, call[p].year, call[p].semester, ok) IN
       IF err # "none"
       THEN Return(p, err)
       ELSE /\ Goto(p, next)
            /\ loc' = [loc EXCEPT ![p].fee = fees[FindOne(fees, call[p].year, call[p].semester)]]
  /\ UNCHANGED <<fees, logs, nextId, now, call, conn, pre>>

\* Amount's filter on logs: member_id and type "approved"
AmountFilter(ls, fee, memberID) ==
  {i \in DOMAIN ls : ls[i].member_id = memberID /\ ls[i].type = "approved"}

AmountFindOne(p) ==
  /\ pc[p] = "Amount.FindOne"
  /\ QueryFindOne(p, "Amount.Find")

\* Find, the cursor loop summing log.Amount, cur.Close
AmountFind(p) ==
  /\ pc[p] = "Amount.Find"
  /\ \/ /\ pc' = [pc EXCEPT ![p] = "Disconnect"]
        /\ ret' = [ret EXCEPT ![p].sum = SumAmount(logs, AmountFilter(logs, loc[p].fee, call[p].memberID))]
        /\ UNCHANGED loc
     \/ Return(p, "find_err")
  /\ UNCHANGED <<fees, logs, nextId, now, call, conn, pre>>

\* the first filter of Dones and Yets: _id $in fee.Logs and type "approved"
ApprovedFilter(ls, fee) ==
  {i \in DOMAIN ls : i \in Range(fee.logs) /\ ls[i].type = "approved"}

\* the map amounts after the cursor loop: amounts[log.MemberID] += log.Amount
AmountsOf(ls, S) ==
  [m \in {ls[i].member_id : i \in S} |-> SumAmount(ls, {i \in S : ls[i].member_id = m})]

\* the second filter of Dones with fee.Amount < amount
DonesArrStrict(amounts, fee) == {m \in DOMAIN amounts : fee.amount < amounts[m]}

\* the second filter of Dones: fee.Amount <= amount
DonesArr(amounts, fee) == {m \in DOMAIN amounts : fee.amount <= amounts[m]}

\* the second filter of Yets with amount <= fee.Amount
YetsArrNotStrict(amounts, fee) == {m \in DOMAIN amounts : amounts[m] <= fee.amount}

\* the second filter of Yets: amount < fee.Amount
YetsArr(amounts, fee) == {m \in DOMAIN amounts : amounts[m] < fee.amount}

\* Find on members with id $in arr
FindMembers(arr) == {m \in Directory : m \in arr}

\* what Dones returns for fee on the logs ls
DonesOf(ls, fee) == FindMembers(DonesArr(AmountsOf(ls, ApprovedFilter(ls, fee)), fee))

\* what Yets returns for fee on the logs ls
YetsOf(ls, fee) == FindMembers(YetsArr(AmountsOf(ls, ApprovedFilter(ls, fee)), fee))

DonesFindOne(p) ==
  /\ pc[p] = "Dones.FindOne"
  /\ QueryFindOne(p, "Dones.FindLogs")

DonesFindLogs(p) ==
  /\ pc[p] = "Dones.FindLogs"
  /\ \/ /\ Goto(p, "Dones.FindMembers")
        /\ loc' = [loc EXCEPT ![p].amounts = AmountsOf(logs, ApprovedFilter(logs, loc[p].fee))]
     \/ Return(p, "find_err")
  /\ UNCHANGED <<fees, logs, nextId, now, call, conn, pre>>

DonesFindMembers(p) ==
  /\ pc[p] = "Dones.FindMembers"
  /\ \/ /\ pc' = [pc EXCEPT ![p] = "Disconnect"]
        /\ ret' = [ret EXCEPT ![p].members = FindMembers(DonesArr(loc[p].amounts, loc[p].fee))]
        /\ UNCHANGED loc
     \/ Return(p, "find_err")
  /\ UNCHANGED <<fees, logs, nextId, now, call, conn, pre>>

YetsFindOne(p) ==
  /\ pc[p] = "Yets.FindOne"
  /\ QueryFindOne(p, "Yets.FindLogs")

YetsFindLogs(p) ==
  /\ pc[p] = "Yets.FindLogs"
  /\ \/ /\ Goto(p, "Yets.FindMembers")
        /\ loc' = [loc EXCEPT ![p].amounts = AmountsOf(logs, ApprovedFilter(logs, loc[p].fee))]
     \/ Return(p, "find_err")
  /\ UNCHANGED <<fees, logs, nextId, now, call, conn, pre>>

YetsFindMembers(p) ==
  /\ pc[p] = "Yets.FindMembers"
  /\ \/ /\ pc' = [pc EXCEPT ![p] = "Disconnect"]
        /\ ret' = [ret EXCEPT ![p].members = FindMembers(YetsArr(loc[p].amounts, loc[p].fee))]
        /\ UNCHANGED loc
     \/ Return(p, "find_err")
  /\ UNCHANGED <<fees, logs, nextId, now, call, conn, pre>>

\* All's filter: _id $in fee.Logs and type "approved" or "direct"
AllFilter(ls, fee) ==
  {i \in DOMAIN ls : i \in Range(fee.logs) /\ ls[i].type \in {"approved", "direct"}}

RECURSIVE Docs(_, _)
\* the documents of ls with _id in S as the cursor yields them, by _id
Docs(ls, S) ==
  IF S = {} THEN <<>>
  ELSE LET i == Min(S) IN
       <<NewLog(i, ls[i].member_id, ls[i].type, ls[i].amount, ls[i].updated_at)>>
         \o Docs(ls, S \ {i})

RECURSIVE InsertByUpdatedAtDesc(_, _)
\* the less function reversed: logs[i].UpdatedAt > logs[j].UpdatedAt
InsertByUpdatedAtDesc(s, x) ==
  IF s = <<>> THEN <<x>>
  ELSE IF x.updated_at > s[1].updated_at THEN <<x>> \o s
  ELSE <<s[1]>> \o InsertByUpdatedAtDesc(Tail(s), x)

RECURSIVE InsertByUpdatedAt(_, _)
InsertByUpdatedAt(s, x) ==
  IF s = <<>> THEN <<x>>
  ELSE IF x.updated_at < s[1].updated_at THEN <<x>> \o s
  ELSE <<s[1]>> \o InsertByUpdatedAt(Tail(s), x)

RECURSIVE SortSlice(_)
\* sort.Slice(logs, less by UpdatedAt): insertion sort, as for short slices
SortSlice(s) ==
  IF s = <<>> THEN <<>>
  ELSE InsertByUpdatedAt(SortSlice(SubSeq(s, 1, Len(s) - 1)), s[Len(s)])

AllFindOne(p) ==
  /\ pc[p] = "All.FindOne"
  /\ QueryFindOne(p, "All.Find")

AllFind(p) ==
  /\ pc[p] = "All.Find"
  /\ \/ /\ pc' = [pc EXCEPT ![p] = "Disconnect"]
        /\ ret' = [ret EXCEPT ![p].logs = SortSlice(Docs(logs, AllFilter(logs, loc[p].fee)))]
        /\ UNCHANGED loc
     \/ Return(p, "find_err")
  /\ UNCHANGED <<fees, logs, nextId, now, call, conn, pre>>

(* --------------------------- specifications -------------------------- *)

\* one step of caller p in a call of Create, Submit, Approve, Reject or Deposit
WriteStep(p) ==
  \/ CreateFindOne(p)
  \/ CreateInsertOne(p)
  \/ SubmitInsertOne(p)
  \/ SubmitUpdateOne(p)
  \/ DepositUpdateOne(p)
  \/ DepositInsertOne(p)
  \/ ApproveUpdateMany(p)
  \/ RejectUpdateOne(p)
  \/ RejectDeleteOne(p)
  \/ Disconnect(p)
  \/ Finish(p)

\* one step of caller p in a call of Amount, Dones, Yets or All
QueryStep(p) ==
  \/ AmountFindOne(p)
  \/ AmountFind(p)
  \/ DonesFindOne(p)
  \/ DonesFindLogs(p)
  \/ DonesFindMembers(p)
  \/ YetsFindOne(p)
  \/ YetsFindLogs(p)
  \/ YetsFindMembers(p)
  \/ AllFindOne(p)
  \/ AllFind(p)

\* one caller: every call runs to its return before the next starts
Next ==
  \/ Tick
  \/ \E c \in Calls : Call(Client, c)
  \/ WriteStep(Client)
  \/ QueryStep(Client)

Spec == Init /\ [][Next]_vars

\* the writing operations called concurrently: their driver calls interleave
ConcCalls ==
  {c \in CallsOf({1}, {1}, LogAmounts, MemberIDs, {l \in IdLists : Len(l) <= 1}) : c.op \in WriteOps}

ConcNext ==
  \/ \E p \in Procs : \E c \in ConcCalls : Begin(p, c, NoPre)
  \/ \E p \in Procs : WriteStep(p)

ConcSpec == Init /\ [][ConcNext]_vars

\* a batch of calls of Create, Submit, Deposit and Reject that overlap in time: a call
\* starts while no caller has returned, and the callers take their results when all
\* calls of the batch have returned
BatchCalls == {c \in ConcCalls : c.op \in {"Create", "Submit", "Deposit", "Reject"}}

BatchStep(p) ==
  \/ CreateFindOne(p)
  \/ CreateInsertOne(p)
  \/ SubmitInsertOne(p)
  \/ SubmitUpdateOne(p)
  \/ DepositUpdateOne(p)
  \/ DepositInsertOne(p)
  \/ RejectUpdateOne(p)
  \/ RejectDeleteOne(p)
  \/ Disconnect(p)

BatchNext ==
  \/ \E p \in Procs : \E c \in BatchCalls :
       /\ \A q \in Procs : pc[q] # "done"
       /\ Begin(p, c, NoPre)
  \/ \E p \in Procs : BatchStep(p)
  \/ \E p \in Procs :
       /\ \A q \in Procs : pc[q] \in {"idle", "done"}
       /\ Finish(p)

BatchSpec == Init /\ [][BatchNext]_vars

(* ============================== claims =============================== *)

\* no call is in progress
Quiet == \A p \in Procs : pc[p] \in {"idle", "done"}

\* p's call of op has returned
Returned(p, op) == pc[p] = "done" /\ call[p].op = op

\* the Fee document (year, semester) of p's call when the call started, 0 if none
PreFee(p) == FindOne(pre[p].fees, call[p].year, call[p].semester)

\* the ids in the logs of some Fee document
TermLogIds == UNION {Range(fees[i].logs) : i \in 1..Len(fees)}

\* C1: whenever no call is in progress, every id in the logs of a Fee document is the
\* _id of a document of the logs collection
C1_NoDanglingLogId == Quiet => TermLogIds \subseteq DOMAIN logs

\* C2: the fees collection holds at most one document per (year, semester)
C2_OneTermPerKey ==
  \A i, j \in 1..Len(fees) :
    (fees[i].year = fees[j].year /\ fees[i].semester = fees[j].semester) => i = j

\* C3: in every step, a log whose type changes goes from unapproved to approved
C3_OnlyUnapprovedToApproved ==
  [][\A i \in DOMAIN logs \cap DOMAIN logs' :
       logs[i].type # logs'[i].type =>
         (logs[i].type = "unapproved" /\ logs'[i].type = "approved")]_vars

\* p's call returned without error
Succeeded(p, op) == Returned(p, op) /\ ret[p].err = "none"

\* C4 as claimed: Create on an existing (year, semester) returns ErrDuplicatedFee and
\* leaves the fees collection as it was
C4_CreateExistingAlwaysDuplicated ==
  \A p \in Procs :
    (Returned(p, "Create") /\ PreFee(p) # 0) =>
      (ret[p].err = "ErrDuplicatedFee" /\ fees = pre[p].fees)

\* C4: Create on an existing (year, semester) returns ErrDuplicatedFee, or the error of
\* Connect or Disconnect, and leaves the fees collection as it was
C4_CreateExistingFails ==
  \A p \in Procs :
    (Returned(p, "Create") /\ PreFee(p) # 0) =>
      /\ ret[p].err \in {"ErrDuplicatedFee", "connect_err", "disconnect_err"}
      /\ (ret[p].err = "connect_err" => ~conn[p])
      /\ fees = pre[p].fees

C4_Witness ==
  \E p \in Procs :
    /\ Returned(p, "Create") /\ PreFee(p) # 0
    /\ ret[p].err = "ErrDuplicatedFee"
    /\ pre[p].fees[PreFee(p)].amount # call[p].amount
    /\ pre[p].fees[PreFee(p)].logs # <<>>

\* C5: after an error-free Submit on an existing term the logs collection has exactly
\* one new document, with the member id and amount of the call and type unapproved,
\* and the fees collection differs only by that id appended to the term's logs
C5_SubmitAppends ==
  \A p \in Procs :
    (Succeeded(p, "Submit") /\ PreFee(p) # 0) =>
      LET new == DOMAIN logs \ DOMAIN pre[p].logs IN
      /\ Cardinality(new) = 1
      /\ \A id \in new :
           /\ logs[id].member_id = call[p].memberID
           /\ logs[id].type = "unapproved"
           /\ logs[id].amount = call[p].amount
           /\ fees = [pre[p].fees EXCEPT ![PreFee(p)].logs = Append(@, id)]
      /\ \A i \in DOMAIN pre[p].logs : i \in DOMAIN logs /\ logs[i] = pre[p].logs[i]

C5_Witness ==
  \E p \in Procs :
    /\ Succeeded(p, "Submit") /\ PreFee(p) = 2
    /\ pre[p].fees[2].logs # <<>>

\* C6: after an error-free Reject(year, semester, ids) no id of ids is the _id of a log
\* document and none is in the logs of the Fee document (year, semester)
C6_RejectRemovesBoth ==
  \A p \in Procs :
    Succeeded(p, "Reject") =>
      \A id \in Range(call[p].ids) :
        /\ id \notin DOMAIN logs
        /\ \A i \in Matches(fees, call[p].year, call[p].semester) : id \notin Range(fees[i].logs)

C6_Witness ==
  \E p \in Procs :
    /\ Succeeded(p, "Reject") /\ PreFee(p) # 0
    /\ Len(call[p].ids) = 2
    /\ \A id \in Range(call[p].ids) :
         id \in DOMAIN pre[p].logs /\ id \in Range(pre[p].fees[PreFee(p)].logs)

\* C7 as claimed: after an error-free Approve every listed log that was unapproved is
\* approved and its updated_at is greater than before
C7_ApproveStrictlyLater ==
  \A p \in Procs :
    Succeeded(p, "Approve") =>
      \A id \in Range(call[p].ids) \cap DOMAIN pre[p].logs :
        pre[p].logs[id].type = "unapproved" =>
          /\ id \in DOMAIN logs /\ logs[id].type = "approved"
          /\ logs[id].updated_at > pre[p].logs[id].updated_at

\* C7: after an error-free Approve every listed log that was unapproved is approved and
\* its updated_at is the clock reading of the call, not less than before
C7_ApproveRefreshes ==
  \A p \in Procs :
    Succeeded(p, "Approve") =>
      \A id \in Range(call[p].ids) \cap DOMAIN pre[p].logs :
        pre[p].logs[id].type = "unapproved" =>
          /\ id \in DOMAIN logs /\ logs[id].type = "approved"
          /\ logs[id].updated_at = now
          /\ logs[id].updated_at >= pre[p].logs[id].updated_at

C7_Witness ==
  \E p \in Procs :
    /\ Succeeded(p, "Approve")
    /\ \E id \in Range(call[p].ids) \cap DOMAIN pre[p].logs :
         /\ pre[p].logs[id].type = "unapproved"
         /\ logs[id].type = "approved"
         /\ logs[id].updated_at > pre[p].logs[id].updated_at

\* the approved logs of member m among the logs of fee
ApprovedOf(ls, fee, m) ==
  {i \in DOMAIN ls : i \in Range(fee.logs) /\ ls[i].type = "approved" /\ ls[i].member_id = m}

\* C8 as claimed: Dones returns the members of the directory whose approved logs of
\* the term sum to the term's amount or more
C8_DonesSumAtLeast ==
  \A p \in Procs :
    (Succeeded(p, "Dones") /\ PreFee(p) # 0) =>
      LET fee == fees[PreFee(p)] IN
      ret[p].members = {m \in Directory : SumAmount(logs, ApprovedOf(logs, fee, m)) >= fee.amount}

\* C8: Dones returns the members of the directory that have an approved log of the
\* term and whose approved logs of the term sum to the term's amount or more
C8_DonesPaid ==
  \A p \in Procs :
    (Succeeded(p, "Dones") /\ PreFee(p) # 0) =>
      LET fee == fees[PreFee(p)] IN
      ret[p].members =
        {m \in Directory : /\ ApprovedOf(logs, fee, m) # {}
                           /\ SumAmount(logs, ApprovedOf(logs, fee, m)) >= fee.amount}

\* a member with approved logs summing to exactly the amount is returned, next to logs
\* that do not count
C8_Witness ==
  \E p \in Procs :
    /\ Succeeded(p, "Dones") /\ PreFee(p) # 0
    /\ ret[p].members = {"m1"}
    /\ LET fee == fees[PreFee(p)] IN
       /\ fee.amount > 0
       /\ SumAmount(logs, ApprovedOf(logs, fee, "m1")) = fee.amount

C10_AmountOfTerm ==
  \A p \in Procs :
    (Succeeded(p, "Amount") /\ PreFee(p) # 0) =>
      LET fee == fees[PreFee(p)] IN
      ret[p].sum =
        SumAmount(logs, {i \in DOMAIN logs : /\ i \in Range(fee.logs)
                                             /\ logs[i].member_id = call[p].memberID
                                             /\ logs[i].type \in {"approved", "direct"}})

\* C11: an error-free All on an existing term returns the documents of the logs
\* collection whose _id is in the term's logs and whose type is approved or direct,
\* each once and as stored, with updated_at never decreasing along the sequence
C11_AllApprovedOrDirectSorted ==
  \A p \in Procs :
    (Succeeded(p, "All") /\ PreFee(p) # 0) =>
      LET fee == fees[PreFee(p)]
          r == ret[p].logs
      IN
      /\ {r[k].id : k \in 1..Len(r)} =
           {i \in DOMAIN logs : i \in Range(fee.logs) /\ logs[i].type # "unapproved"}
      /\ \A k, l \in 1..Len(r) : k # l => r[k].id # r[l].id
      /\ \A k \in 1..Len(r) :
           /\ logs[r[k].id].type \in {"approved", "direct"}
           /\ r[k].member_id = logs[r[k].id].member_id
           /\ r[k].type = logs[r[k].id].type
           /\ r[k].amount = logs[r[k].id].amount
           /\ r[k].updated_at = logs[r[k].id].updated_at
      /\ \A k \in 1..(Len(r) - 1) : r[k].updated_at <= r[k + 1].updated_at

\* two logs are returned, the younger _id first because it was updated earlier
C11_Witness ==
  \E p \in Procs :
    /\ Succeeded(p, "All") /\ PreFee(p) # 0
    /\ Len(ret[p].logs) = 2
    /\ ret[p].logs[1].id > ret[p].logs[2].id
    /\ ret[p].logs[1].updated_at < ret[p].logs[2].updated_at

\* C12: after an error-free Deposit on an existing term the logs collection has a new
\* document with empty member_id, type direct and the amount of the call, and an All
\* on the term at that point returns it
C12_DepositVisibleInAll ==
  \A p \in Procs :
    (Succeeded(p, "Deposit") /\ PreFee(p) # 0) =>
      \E id \in DOMAIN logs \ DOMAIN pre[p].logs :
        /\ logs[id].member_id = ""
        /\ logs[id].type = "direct"
        /\ logs[id].amount = call[p].amount
        /\ LET all == SortSlice(Docs(logs, AllFilter(logs, fees[PreFee(p)]))) IN
           \E k \in 1..Len(all) : all[k].id = id

QueryOps == {"Amount", "Dones", "Yets", "All"}

\* p's call came back with nothing in its result
EmptyResult(p) == ret[p].sum = 0 /\ ret[p].members = {} /\ ret[p].logs = <<>>

\* C13 as claimed: Amount, Dones, Yets and All on a (year, semester) with no Fee
\* document return ErrNoDocuments and an empty result and leave both collections
\* as they were
C13_MissingTermAlwaysNotFound ==
  \A p \in Procs :
    (pc[p] = "done" /\ call[p].op \in QueryOps /\ PreFee(p) = 0) =>
      /\ ret[p].err = "ErrNoDocuments"
      /\ EmptyResult(p)
      /\ fees = pre[p].fees /\ logs = pre[p].logs

\* C13: Amount, Dones, Yets and All on a (year, semester) with no Fee document return
\* an error and an empty result and leave both collections as they were; the error is
\* ErrNoDocuments, or that of Connect (then nothing was connected) or of FindOne
C13_MissingTermFails ==
  \A p \in Procs :
    (pc[p] = "done" /\ call[p].op \in QueryOps /\ PreFee(p) = 0) =>
      /\ ret[p].err \in {"ErrNoDocuments", "connect_err", "find_err"}
      /\ (ret[p].err = "connect_err" => ~conn[p])
      /\ EmptyResult(p)
      /\ fees = pre[p].fees /\ logs = pre[p].logs

\* the term asked for is missing while another term with an approved log exists
C13_Witness ==
  \E p \in Procs :
    /\ pc[p] = "done" /\ call[p].op \in QueryOps /\ PreFee(p) = 0
    /\ ret[p].err = "ErrNoDocuments"
    /\ \E i \in 1..Len(fees) : \E id \in Range(fees[i].logs) :
         id \in DOMAIN logs /\ logs[id].type = "approved"

\* C14: a call that has returned holds no open connection
C14_ReturnedDisconnected == \A p \in Procs : pc[p] = "done" => ~conn[p]

\* C15: a step in which a store call of p visibly fails (FindOne finds nothing where
\* there is nothing and is not taken as ErrNoDocuments; an insert, $push, $pull or
\* delete leaves unchanged what it would have changed) ends p's call with the error
\* of that store call
C15_StoreErrorsSurface ==
  [][\A p \in Procs :
       LET t == FindOne(fees, call[p].year, call[p].semester)
           id == IF pc[p] \in {"Reject.UpdateOne", "Reject.DeleteOne"}
                 THEN call[p].ids[loc[p].idx] ELSE 0
           Left == pc'[p] # pc[p]
           Came(e) == pc'[p] = "done" /\ ret'[p].err = e
       IN
       /\ (pc[p] = "Create.FindOne" /\ Left /\ t = 0 /\ pc'[p] # "Create.InsertOne")
            => Came("find_err")
       /\ (pc[p] = "Create.InsertOne" /\ Left /\ fees' = fees) => Came("insert_err")
       /\ (pc[p] = "Submit.InsertOne" /\ Left /\ logs' = logs) => Came("insert_err")
       /\ (pc[p] = "Submit.UpdateOne" /\ Left /\ t # 0 /\ fees' = fees) => Came("update_err")
       /\ (pc[p] = "Deposit.UpdateOne" /\ Left /\ t # 0 /\ fees' = fees) => Came("update_err")
       /\ (pc[p] = "Deposit.InsertOne" /\ Left /\ logs' = logs) => Came("insert_err")
       /\ (pc[p] = "Reject.UpdateOne" /\ Left /\ t # 0 /\ fees' # UpdateOnePull(fees, call[p].year, call[p].semester, id))
            => Came("update_err")
       /\ (pc[p] = "Reject.DeleteOne" /\ Left /\ id \in DOMAIN logs /\ logs' = logs)
            => Came("delete_err")]_vars

\* C16: at every point of a Deposit, and after it, the id of the log it made is in the
\* logs of a Fee document only if the log is a document of the logs collection
C16_DepositInsertsBeforePush ==
  \A p \in Procs :
    (call[p].op = "Deposit" /\ loc[p].log.id \in TermLogIds) => loc[p].log.id \in DOMAIN logs

\* how often id occurs in the list l
Count(l, id) == Cardinality({k \in 1..Len(l) : l[k] = id})

\* every caller has returned without error from a Submit, Deposit or Reject on an
\* existing term
BatchDone ==
  \A p \in Procs :
    /\ pc[p] = "done" /\ ret[p].err = "none"
    /\ call[p].op \in {"Submit", "Deposit", "Reject"}
    /\ FindOne(fees, call[p].year, call[p].semester) # 0

\* C17: when the overlapping calls of Submit, Deposit and Reject on a term have all
\* returned without error, the id of the log each Submit and Deposit made, unless a
\* Reject of the batch names it, is in the term's logs exactly once
C17_NoLostAppend ==
  BatchDone =>
    \A p \in Procs :
      (/\ call[p].op \in {"Submit", "Deposit"}
       /\ \A q \in Procs : call[q].op = "Reject" => loc[p].log.id \notin Range(call[q].ids))
      => Count(fees[FindOne(fees, call[p].year, call[p].semester)].logs, loc[p].log.id) = 1

\* two appends to the same term in one batch
C17_Witness ==
  /\ BatchDone
  /\ \E p, q \in Procs :
       /\ call[p].op = "Submit" /\ call[q].op = "Deposit"
       /\ call[p].year = call[q].year /\ call[p].semester = call[q].semester
       /\ Len(fees[FindOne(fees, call[p].year, call[p].semester)].logs) = 2

\* the ids ids[1..n]
Prefix(ids, n) == {ids[j] : j \in 1..n}

\* the list l without the ids of S
RECURSIVE Drop(_, _)
Drop(l, S) ==
  IF l = <<>> THEN <<>>
  ELSE IF l[1] \in S THEN Drop(Tail(l), S)
  ELSE <<l[1]>> \o Drop(Tail(l), S)

\* the collections as they were when p's call started, with the ids of P pulled from
\* the logs of the Fee document of the call and the logs of D deleted
Rejected(p, P, D) ==
  /\ fees = [i \in 1..Len(pre[p].fees) |->
               IF i = PreFee(p) THEN [pre[p].fees[i] EXCEPT !.logs = Drop(@, P)]
               ELSE pre[p].fees[i]]
  /\ logs = [i \in DOMAIN pre[p].logs \ D |-> pre[p].logs[i]]

\* C18: a Reject that returns the error of its $pull or its delete stopped at one id
\* of its list: every id before it has been pulled and deleted, every id after it is
\* where it was, and the id itself is untouched when the $pull failed and pulled but
\* not deleted when the delete failed
C18_RejectStopsAtFailure ==
  \A p \in Procs :
    (Returned(p, "Reject") /\ ret[p].err \in {"update_err", "delete_err"}) =>
      \E k \in 1..Len(call[p].ids) :
        IF ret[p].err = "update_err"
        THEN Rejected(p, Prefix(call[p].ids, k - 1), Prefix(call[p].ids, k - 1))
        ELSE Rejected(p, Prefix(call[p].ids, k), Prefix(call[p].ids, k - 1))

\* the list has two ids, both logs of the term: the first is gone from both
\* collections, the second is still in both
C18_Witness ==
  \E p \in Procs :
    /\ Returned(p, "Reject") /\ ret[p].err \in {"update_err", "delete_err"}
    /\ PreFee(p) # 0
    /\ Len(call[p].ids) = 2
    /\ Range(call[p].ids) \subseteq DOMAIN pre[p].logs
    /\ Range(call[p].ids) \subseteq Range(pre[p].fees[PreFee(p)].logs)
    /\ call[p].ids[1] \notin DOMAIN logs
    /\ call[p].ids[1] \notin Range(fees[PreFee(p)].logs)
    /\ call[p].ids[2] \in DOMAIN logs

\* the logs collection is what it was when p's call started plus one unapproved log
\* with the member id and amount of the call, whose id is in no Fee document
OrphanAdded(p) ==
  LET new == DOMAIN logs \ DOMAIN pre[p].logs IN
  /\ Cardinality(new) = 1
  /\ \A id \in new :
       /\ logs[id].member_id = call[p].memberID
       /\ logs[id].type = "unapproved"
       /\ logs[id].amount = call[p].amount
       /\ id \notin TermLogIds
  /\ \A i \in DOMAIN pre[p].logs : i \in DOMAIN logs /\ logs[i] = pre[p].logs[i]

\* C19 as claimed: Submit on a (year, semester) with no Fee document returns no error,
\* adds one unapproved log that is in no Fee document, and leaves the fees collection
\* as it was
C19_SubmitMissingTermAlwaysSucceeds ==
  \A p \in Procs :
    (Returned(p, "Submit") /\ PreFee(p) = 0) =>
      /\ ret[p].err = "none"
      /\ OrphanAdded(p)
      /\ fees = pre[p].fees

\* C19: Submit on a (year, semester) with no Fee document leaves the fees collection
\* as it was and returns no error unless one of its store calls fails; it adds one
\* unapproved log that is in no Fee document, unless Connect or the insert failed,
\* and then it adds nothing
C19_SubmitMissingTermOrphans ==
  \A p \in Procs :
    (Returned(p, "Submit") /\ PreFee(p) = 0) =>
      /\ fees = pre[p].fees
      /\ ret[p].err \in {"none", "connect_err", "insert_err", "update_err", "disconnect_err"}
      /\ IF ret[p].err \in {"connect_err", "insert_err"}
         THEN logs = pre[p].logs
         ELSE OrphanAdded(p)

\* Submit returned no error for a missing term while another term with a log exists
C19_Witness ==
  \E p \in Procs :
    /\ Succeeded(p, "Submit") /\ PreFee(p) = 0
    /\ \E i \in 1..Len(fees) : fees[i].logs # <<>>
    /\ DOMAIN logs \ DOMAIN pre[p].logs # {}

\* C20: in every state each id occurs in the logs of at most one Fee document, and at
\* most once there
C20_IdInOneTermOnce ==
  \A id \in Ids :
    /\ \A i, j \in 1..Len(fees) :
         (id \in Range(fees[i].logs) /\ id \in Range(fees[j].logs)) => i = j
    /\ \A i \in 1..Len(fees) : Count(fees[i].logs, id) <= 1

\* two Fee documents of the same (year, semester), made by racing Creates, and two ids
\* in the logs of one of them
C20_Witness ==
  /\ Len(fees) = 2
  /\ \E i \in 1..Len(fees) : Len(fees[i].logs) = 2

====
